---- MODULE Spec2Model ----
(***************************************************************************)
(* A model of boj-tool (src/boj/__init__.py): the session manager          *)
(* (load_cookie / login), the language resolver (get_lang_code), the       *)
(* submitter (submit) and the verdict poller (print_result, convert_msg,   *)
(* check_finished).                                                        *)
(*                                                                         *)
(* A Python str is a sequence of characters.  An ASCII character is the    *)
(* one-character string; a Hangul syllable is written "k_" followed by its *)
(* romanisation (점 is "k_jeom"), the escape character is "ESC", a line   *)
(* feed is "LF" and the Arabic-Indic digit three (a \d of Python 3) is     *)
(* "arabic3".                                                              *)
(***************************************************************************)
EXTENDS Integers, Sequences, FiniteSets, TLC

VARIABLES
    pc,          \* position of the process in main() and its callees
    args,        \* the parsed command line (args of main)
    config,      \* the global ConfigParser: section -> (option -> raw value)
    cookiefile,  \* the file at cookiefile_path: NoFile or the pickled jar
    sess,        \* sess.cookies of the global requests.Session
    serverValid, \* the session tokens the site holds as logged in
    creds,       \* what the user typed at the prompts of login()
    checked,     \* the value check_login() returned inside login()
    csrf,        \* the csrf_key submit() took from the submission page
    net,         \* the network requests of login()/submit()/stats(), in order
    log,         \* the records passed to logger.error, in order
    poll,        \* print_result: iterations made; the text the last one
                 \* fetched, if it fetched one; the line shown; done
    exc,         \* the exception that ended the process, "none" if none
    hist,        \* history: what login() and load_cookie() did in this run
    call,        \* the arguments of a call of a pure function
    langRet,     \* what get_lang_code(call.ext) returned or raised
    finRet,      \* what check_finished(call.text) returned
    msgRet       \* what convert_msg(call.text, call.mem, call.rtime) returned

vars == <<pc, args, config, cookiefile, sess, serverValid, creds, checked, csrf,
          net, log, poll, exc, hist, call, langRet, finRet, msgRet>>

procVars == <<pc, args, cookiefile, sess, serverValid, creds, checked, csrf,
              net, log, poll, exc, hist>>

(***************************************************************************)
(* Bounds of the model.                                                    *)
(***************************************************************************)
\* the longest status text enumerated over MsgAlphabet
MaxLen == 3
\* the most iterations of print_result's loop a run of the model makes
MaxPolls == 3

(***************************************************************************)
(* Strings.                                                                *)
(***************************************************************************)
\* Python's  sub in s
Contains(s, sub) ==
    \E i \in 0..(Len(s) - Len(sub)) : SubSeq(s, i + 1, i + Len(sub)) = sub

\* Python's  s.replace(old, new)  for a non-empty old: every occurrence,
\* left to right, without overlap
RECURSIVE Replace(_, _, _)
Replace(s, old, new) ==
    IF Len(s) < Len(old) THEN s
    ELSE IF SubSeq(s, 1, Len(old)) = old
         THEN new \o Replace(SubSeq(s, Len(old) + 1, Len(s)), old, new)
         ELSE <<Head(s)>> \o Replace(Tail(s), old, new)

LowerChar(c) ==
    CASE c = "A" -> "a" [] c = "C" -> "c" [] c = "D" -> "d" [] c = "G" -> "g"
      [] c = "J" -> "j" [] c = "K" -> "k" [] c = "L" -> "l" [] c = "N" -> "n"
      [] c = "O" -> "o" [] c = "P" -> "p" [] c = "R" -> "r" [] c = "Y" -> "y"
      [] OTHER -> c

\* Python's  s.lower()
Lower(s) == [i \in 1..Len(s) |-> LowerChar(s[i])]

\* the characters the regular expression \d matches (Unicode decimal digits)
Digits == {"0", "1", "2", "3", "4", "5", "6", "7", "8", "9", "arabic3"}

\* the length of the longest prefix of s made of digits
RECURSIVE DigitPrefixLen(_)
DigitPrefixLen(s) ==
    IF s # <<>> /\ Head(s) \in Digits THEN 1 + DigitPrefixLen(Tail(s)) ELSE 0

\* re.fullmatch(r'^\d+점$', s) is not None: \d+ takes every leading digit, 점
\* follows, and the match must end where the string ends
re_fullmatch_score(s) ==
    LET d == DigitPrefixLen(s)
    IN  d >= 1 /\ Len(s) = d + 1 /\ s[d + 1] = "k_jeom"

\* re.match(r'^\d+점$', s) is not None: as above, but $ also matches just
\* before a line feed that ends the string
re_match_score(s) ==
    LET d == DigitPrefixLen(s)
    IN  /\ d >= 1
        /\ Len(s) >= d + 1
        /\ s[d + 1] = "k_jeom"
        /\ \/ Len(s) = d + 1
           \/ Len(s) = d + 2 /\ s[d + 2] = "LF"

\* re.match(r'\d+', s)[0]
re_match_digits(s) == SubSeq(s, 1, DigitPrefixLen(s))

(***************************************************************************)
(* The judge's status texts (src/boj/__init__.py:315-356).                 *)
(***************************************************************************)
\* 채점 준비 중
S_Preparing == <<"k_chae", "k_jeom", " ", "k_jun", "k_bi", " ", "k_jung">>
\* 채점 중
S_Judging == <<"k_chae", "k_jeom", " ", "k_jung">>
\* 기다리는 중
S_Waiting == <<"k_gi", "k_da", "k_ri", "k_neun", " ", "k_jung">>
\* 맞았습니다!!
S_Accepted == <<"k_maj", "k_ass", "k_seup", "k_ni", "k_da", "!", "!">>
\* 출력 형식이 잘못되었습니다
S_Format == <<"k_chul", "k_ryeok", " ", "k_hyeong", "k_sik", "k_i", " ",
              "k_jal", "k_mot", "k_doe", "k_eoss", "k_seup", "k_ni", "k_da">>
\* 틀렸습니다
S_Wrong == <<"k_teul", "k_ryeoss", "k_seup", "k_ni", "k_da">>
\* 시간 초과
S_Time == <<"k_si", "k_gan", " ", "k_cho", "k_gwa">>
\* 메모리 초과
S_Memory == <<"k_me", "k_mo", "k_ri", " ", "k_cho", "k_gwa">>
\* 출력 초과
S_Output == <<"k_chul", "k_ryeok", " ", "k_cho", "k_gwa">>
\* 런타임 에러
S_Runtime == <<"k_reon", "k_ta", "k_im", " ", "k_e", "k_reo">>
\* 컴파일 에러
S_Compile == <<"k_keom", "k_pa", "k_il", " ", "k_e", "k_reo">>

\* colorama's Fore.* and Style.RESET_ALL
Fore_RED == <<"ESC", "[", "3", "1", "m">>
Fore_GREEN == <<"ESC", "[", "3", "2", "m">>
Fore_YELLOW == <<"ESC", "[", "3", "3", "m">>
Fore_BLUE == <<"ESC", "[", "3", "4", "m">>
Style_RESET_ALL == <<"ESC", "[", "0", "m">>

L_Preparing == <<"P", "r", "e", "p", "a", "r", "i", "n", "g", ".", ".", ".">>
L_Judging == <<"J", "u", "d", "g", "i", "n", "g", ".", ".", ".">>
L_Waiting == <<"W", "a", "i", "t", "i", "n", "g", ".", ".", ".">>
L_CompileError == <<"C", "o", "m", "p", "i", "l", "e", " ", "E", "r", "r", "o", "r">>

\* 'AC (%sKB, %sms)' % (mem, rtime)
FormatAC(mem, rtime) ==
    <<"A", "C", " ", "(">> \o mem \o <<"K", "B", ",", " ">> \o rtime
        \o <<"m", "s", ")">>

\* 'Partial ({0})'.format(n)
FormatPartial(n) ==
    <<"P", "a", "r", "t", "i", "a", "l", " ", "(">> \o n \o <<")">>

\* the keys of conversion_table, in the order of the source
conversion_keys ==
    <<S_Accepted, S_Format, S_Wrong, S_Time, S_Memory, S_Output, S_Runtime,
      S_Compile, S_Waiting>>

\* conversion_table[msg] for a key msg
conversion_table(msg, mem, rtime) ==
    CASE msg = S_Accepted -> Fore_GREEN \o FormatAC(mem, rtime)
      [] msg = S_Format -> Fore_RED \o <<"P", "E">>
      [] msg = S_Wrong -> Fore_RED \o <<"W", "A">>
      [] msg = S_Time -> Fore_RED \o <<"T", "L", "E">>
      [] msg = S_Memory -> Fore_RED \o <<"M", "L", "E">>
      [] msg = S_Output -> Fore_RED \o <<"P", "L", "E">>
      [] msg = S_Runtime -> Fore_BLUE \o <<"R", "T", "E">>
      [] msg = S_Compile -> Fore_BLUE \o L_CompileError
      [] msg = S_Waiting -> Fore_YELLOW \o L_Waiting

Returned(v) == [exc |-> "none", val |-> v]
Raised(e) == [exc |-> e, val |-> <<>>]

\* convert_msg without its branch for a partial score
convert_msg_noscore(msg, mem, rtime) ==
    IF Contains(msg, S_Preparing)
    THEN Returned(Fore_YELLOW \o L_Preparing \o Style_RESET_ALL)
    ELSE IF Contains(msg, S_Judging)
    THEN Returned(Replace(msg, S_Judging, Fore_YELLOW \o L_Judging)
                    \o Style_RESET_ALL)
    ELSE IF \E i \in 1..Len(conversion_keys) : conversion_keys[i] = msg
    THEN Returned(conversion_table(msg, mem, rtime) \o Style_RESET_ALL)
    ELSE Raised("KeyError")

\* convert_msg(msg, mem, rtime): the label, or the KeyError of the lookup
convert_msg(msg, mem, rtime) ==
    IF Contains(msg, S_Preparing)
    THEN Returned(Fore_YELLOW \o L_Preparing \o Style_RESET_ALL)
    ELSE IF Contains(msg, S_Judging)
    THEN Returned(Replace(msg, S_Judging, Fore_YELLOW \o L_Judging)
                    \o Style_RESET_ALL)
    ELSE IF re_match_score(msg)
    THEN Returned(Fore_YELLOW \o FormatPartial(re_match_digits(msg))
                    \o Style_RESET_ALL)
    ELSE IF \E i \in 1..Len(conversion_keys) : conversion_keys[i] = msg
    THEN Returned(conversion_table(msg, mem, rtime) \o Style_RESET_ALL)
    ELSE Raised("KeyError")

\* check_finished with re.match in the place of re.fullmatch
check_finished_match(text) ==
    IF re_match_score(text) THEN TRUE
    ELSE text \in {S_Accepted, S_Format, S_Wrong, S_Time, S_Memory, S_Output,
                   S_Runtime, S_Compile}

\* check_finished(text)
check_finished(text) ==
    IF re_fullmatch_score(text) THEN TRUE
    ELSE text \in {S_Accepted, S_Format, S_Wrong, S_Time, S_Memory, S_Output,
                   S_Runtime, S_Compile}


(***************************************************************************)
(* The language resolver (src/boj/__init__.py:136-262).                    *)
(***************************************************************************)
S_gpp == <<"g", "+", "+">>
S_clang == <<"c", "l", "a", "n", "g">>
S_gcc == <<"g", "c", "c">>
S_cpython == <<"c", "p", "y", "t", "h", "o", "n">>
S_pypy == <<"p", "y", "p", "y">>
S_oracle == <<"o", "r", "a", "c", "l", "e">>
S_openjdk == <<"o", "p", "e", "n", "j", "d", "k">>
S_CPython == <<"C", "P", "y", "t", "h", "o", "n">>
S_Oracle == <<"O", "r", "a", "c", "l", "e">>
S_Cpp14 == <<"C", "+", "+", "1", "4">>
S_C11 == <<"C", "1", "1">>

E_cc == <<".", "c", "c">>
E_cpp == <<".", "c", "p", "p">>
E_cxx == <<".", "c", "+", "+">>
E_c == <<".", "c">>
E_py == <<".", "p", "y">>
E_java == <<".", "j", "a", "v", "a">>
E_txt == <<".", "t", "x", "t">>
E_js == <<".", "j", "s">>
E_aheui == <<".", "a", "h", "e", "u", "i">>

\* ConfigParser's BasicInterpolation of a raw value on reading it: %% is a
\* percent sign, and a % followed by anything but % or ( raises.  (No value
\* of the model holds a "(", the start of a reference to another option.)
RECURSIVE Interpolate(_)
Interpolate(raw) ==
    IF raw = <<>> THEN Returned(<<>>)
    ELSE IF Head(raw) # "%"
    THEN LET r == Interpolate(Tail(raw))
         IN  [exc |-> r.exc, val |-> IF r.exc = "none" THEN <<Head(raw)>> \o r.val ELSE <<>>]
    ELSE IF Len(raw) >= 2 /\ raw[2] = "%"
    THEN LET r == Interpolate(SubSeq(raw, 3, Len(raw)))
         IN  [exc |-> r.exc, val |-> IF r.exc = "none" THEN <<"%">> \o r.val ELSE <<>>]
    ELSE Raised("InterpolationSyntaxError")

\* config[lang][option]
ConfigGet(lang, option) == Interpolate(config[lang][option])

\* get_compiler(lang, default)
get_compiler(lang, default) ==
    IF "Compiler" \in DOMAIN config[lang]
    THEN ConfigGet(lang, "Compiler")
    ELSE Returned(default)

\* get_version(lang, default)
get_version(lang, default) ==
    IF "Version" \in DOMAIN config[lang]
    THEN ConfigGet(lang, "Version")
    ELSE Returned(default)

\* what get_lang_code does: return a code, or raise; errors are the
\* logger.error records it made on the way
LangReturn(code, errors) == [exc |-> "none", code |-> code, errors |-> errors]
LangRaise(e) == [exc |-> e, code |-> -1, errors |-> <<>>]
LogError(msg, arg) == [level |-> "ERROR", msg |-> msg, arg |-> arg]

\* the statements that follow an if/elif chain that returned nothing:
\* line 262, "return 88 # fallback"
Fallback(errors) == LangReturn(88, errors)

\* the branch for C++ with the code of g++ 17 pasted under clang 17
lang_cpp_pasted(compiler, version) ==
    IF Lower(compiler) = S_gpp
    THEN IF Contains(version, <<"1", "1">>) THEN LangReturn(49, <<>>)
         ELSE IF Contains(version, <<"1", "4">>) THEN LangReturn(88, <<>>)
         ELSE IF Contains(version, <<"1", "7">>) THEN LangReturn(84, <<>>)
         ELSE Fallback(<<LogError("Invalid C++ version", version)>>)
    ELSE IF Lower(compiler) = S_clang
    THEN IF Contains(version, <<"1", "1">>) THEN LangReturn(66, <<>>)
         ELSE IF Contains(version, <<"1", "4">>) THEN LangReturn(67, <<>>)
         ELSE IF Contains(version, <<"1", "7">>) THEN LangReturn(84, <<>>)
         ELSE Fallback(<<LogError("Invalid C++ version", version)>>)
    ELSE Fallback(<<LogError("Invalid C++ compiler", compiler)>>)

\* lines 184-203: the C++ branch once compiler and version are read
lang_cpp(compiler, version) ==
    IF Lower(compiler) = S_gpp
    THEN IF Contains(version, <<"1", "1">>) THEN LangReturn(49, <<>>)
         ELSE IF Contains(version, <<"1", "4">>) THEN LangReturn(88, <<>>)
         ELSE IF Contains(version, <<"1", "7">>) THEN LangReturn(84, <<>>)
         ELSE Fallback(<<LogError("Invalid C++ version", version)>>)
    ELSE IF Lower(compiler) = S_clang
    THEN IF Contains(version, <<"1", "1">>) THEN LangReturn(66, <<>>)
         ELSE IF Contains(version, <<"1", "4">>) THEN LangReturn(67, <<>>)
         ELSE IF Contains(version, <<"1", "7">>) THEN LangReturn(85, <<>>)
         ELSE Fallback(<<LogError("Invalid C++ version", version)>>)
    ELSE Fallback(<<LogError("Invalid C++ compiler", compiler)>>)

\* lines 209-224: the C branch once compiler and version are read
lang_c(compiler, version) ==
    IF Lower(compiler) = S_gcc
    THEN IF Contains(version, <<"1", "1">>) THEN LangReturn(75, <<>>)
         ELSE IF version = <<"C">> THEN LangReturn(0, <<>>)
         ELSE Fallback(<<LogError("Invalid C version", version)>>)
    ELSE IF Lower(compiler) = S_clang
    THEN IF Contains(version, <<"1", "1">>) THEN LangReturn(77, <<>>)
         ELSE IF version = <<"C">> THEN LangReturn(59, <<>>)
         ELSE Fallback(<<LogError("Invalid C version", version)>>)
    ELSE Fallback(<<LogError("Invalid C compiler", compiler)>>)

\* lines 230-245: the Python branch once compiler and version are read
lang_python(compiler, version) ==
    IF Lower(compiler) = S_cpython
    THEN IF Contains(version, <<"2">>) THEN LangReturn(6, <<>>)
         ELSE IF Contains(version, <<"3">>) THEN LangReturn(28, <<>>)
         ELSE Fallback(<<LogError("Invalid Python version", version)>>)
    ELSE IF Lower(compiler) = S_pypy
    THEN IF Contains(version, <<"2">>) THEN LangReturn(32, <<>>)
         ELSE IF Contains(version, <<"3">>) THEN LangReturn(73, <<>>)
         ELSE Fallback(<<LogError("Invalid Python version", version)>>)
    ELSE Fallback(<<LogError("Invalid Python interpreter", compiler)>>)

\* lines 250-255: the Java branch once the compiler is read
lang_java(compiler) ==
    IF Lower(compiler) = S_oracle THEN LangReturn(3, <<>>)
    ELSE IF Lower(compiler) = S_openjdk THEN LangReturn(91, <<>>)
    ELSE Fallback(<<LogError("Invalid Java compiler", compiler)>>)

\* get_lang_code(ext)
get_lang_code(ext) ==
    IF ext \in {E_cc, E_cpp, E_cxx}
    THEN IF "C++" \notin DOMAIN config THEN LangReturn(88, <<>>)
         ELSE LET compiler == get_compiler("C++", S_gpp)
                  version == get_version("C++", S_Cpp14)
              IN  IF compiler.exc # "none" THEN LangRaise(compiler.exc)
                  ELSE IF version.exc # "none" THEN LangRaise(version.exc)
                  ELSE lang_cpp(compiler.val, version.val)
    ELSE IF ext = E_c
    THEN IF "C" \notin DOMAIN config THEN LangReturn(75, <<>>)
         ELSE LET compiler == get_compiler("C", S_gcc)
                  version == get_version("C", S_C11)
              IN  IF compiler.exc # "none" THEN LangRaise(compiler.exc)
                  ELSE IF version.exc # "none" THEN LangRaise(version.exc)
                  ELSE lang_c(compiler.val, version.val)
    ELSE IF ext = E_py
    THEN IF "Python" \notin DOMAIN config THEN LangReturn(28, <<>>)
         ELSE LET compiler == get_compiler("Python", S_CPython)
                  version == get_version("Python", <<"3">>)
              IN  IF compiler.exc # "none" THEN LangRaise(compiler.exc)
                  ELSE IF version.exc # "none" THEN LangRaise(version.exc)
                  ELSE lang_python(compiler.val, version.val)
    ELSE IF ext = E_java
    THEN IF "Java" \notin DOMAIN config THEN LangReturn(3, <<>>)
         ELSE LET compiler == get_compiler("Java", S_Oracle)
              IN  IF compiler.exc # "none" THEN LangRaise(compiler.exc)
                  ELSE lang_java(compiler.val)
    ELSE IF ext = E_txt THEN LangReturn(58, <<>>)
    ELSE IF ext = E_js THEN LangReturn(17, <<>>)
    ELSE IF ext = E_aheui THEN LangReturn(83, <<>>)
    ELSE Fallback(<<>>)


(***************************************************************************)
(* The process: main() and what it calls (src/boj/__init__.py:54-133,      *)
(* 265-293, 359-474).                                                      *)
(***************************************************************************)
NoFile == [exists |-> FALSE]
File(jar) == [exists |-> TRUE, jar |-> jar]

\* A cookie jar holds at most the site's one session cookie: the empty set,
\* or the set of its token.
EmptyJar == {}

\* RequestsCookieJar.update(other): other's cookie replaces the one of the
\* same name
JarUpdate(jar, other) == IF other = {} THEN jar ELSE other

\* whether the site shows the session its a.username link
LoggedIn == sess \cap serverValid # {}

F_a_cpp == <<"a", ".", "c", "p", "p">>
F_b_py == <<"b", ".", "p", "y">>
F_m_c == <<"m", ".", "c">>
F_Make == <<"M", "a", "k", "e">>

\* the files of the working directory that open(filename, 'r') can read
ReadableFiles == {F_a_cpp, F_b_py, F_Make}

\* f.read() of a readable file
FileText(filename) == <<"source of">> \o filename

\* os.path.splitext(filename)[1] of a name without a directory: from the
\* last dot on, unless only dots come before it
splitext(filename) ==
    LET dots == {i \in 1..Len(filename) : filename[i] = "."}
        last == CHOOSE i \in dots : \A j \in dots : j <= i
    IN  IF dots = {} THEN <<>>
        ELSE IF \A j \in 1..(last - 1) : filename[j] = "." THEN <<>>
        ELSE SubSeq(filename, last, Len(filename))

Raise(e) == pc' = "raised" /\ exc' = e

\* where control goes when load_cookie() returns to submit() or stats()
AfterLoadCookie == IF args.cmd = "submit" THEN "submit_get" ELSE "stats"

\* where control goes when login() returns
AfterLogin == IF args.cmd = "login" THEN "done" ELSE AfterLoadCookie

\* main(): initialize() and the dispatch on the subcommand
main ==
    /\ pc = "main"
    /\ pc' = CASE args.cmd = "login" -> "login"
               [] args.cmd = "submit" -> "load_cookie"
               [] args.cmd = "stats" -> "load_cookie"
               [] args.cmd = "version" -> "done"
    /\ hist' = IF args.cmd = "login"
               THEN [hist EXCEPT !.logins = @ + 1] ELSE hist
    /\ UNCHANGED <<args, config, cookiefile, sess, serverValid, creds, checked,
                   csrf, net, log, poll, exc, call, langRet, finRet, msgRet>>

\* load_cookie() that logs in after loading the file as well (the else lost)
load_cookie_noelse ==
    /\ pc = "load_cookie"
    /\ IF cookiefile.exists
       THEN /\ sess' = JarUpdate(sess, cookiefile.jar)
            /\ log' = log
            /\ pc' = "login"
            /\ hist' = [hist EXCEPT !.load = "file", !.logins = @ + 1]
       ELSE /\ sess' = sess
            /\ log' = Append(log, "Cookiefile not found. Logging in...")
            /\ pc' = "login"
            /\ hist' = [hist EXCEPT !.load = "login", !.logins = @ + 1]
    /\ UNCHANGED <<args, config, cookiefile, serverValid, creds, checked, csrf,
                   net, poll, exc, call, langRet, finRet, msgRet>>

\* load_cookie()
load_cookie ==
    /\ pc = "load_cookie"
    /\ IF cookiefile.exists
       THEN /\ sess' = JarUpdate(sess, cookiefile.jar)
            /\ log' = log
            /\ pc' = AfterLoadCookie
            /\ hist' = [hist EXCEPT !.load = "file"]
       ELSE /\ sess' = sess
            /\ log' = Append(log, "Cookiefile not found. Logging in...")
            /\ pc' = "login"
            /\ hist' = [hist EXCEPT !.load = "login", !.logins = @ + 1]
    /\ UNCHANGED <<args, config, cookiefile, serverValid, creds, checked, csrf,
                   net, poll, exc, call, langRet, finRet, msgRet>>

\* login(), lines 123-124: the two prompts; the user types the credentials
\* of an account or something else
login_prompt ==
    /\ pc = "login"
    /\ \E typed \in {"good", "bad"} : creds' = typed
    /\ hist' = [hist EXCEPT !.prompts = @ + 1]
    /\ pc' = "auth_user"
    /\ UNCHANGED <<args, config, cookiefile, sess, serverValid, checked, csrf,
                   net, log, poll, exc, call, langRet, finRet, msgRet>>

\* auth_user(username, password): one POST to /signin.  The site answers
\* good credentials with a session cookie it holds as logged in, and others
\* with a session cookie it does not, or with none.
auth_user ==
    /\ pc = "auth_user"
    /\ net' = Append(net, [req |-> "signin", op |-> "POST", data |-> creds])
    /\ \E ok \in BOOLEAN, cookie \in BOOLEAN :
         IF ~ok
         THEN /\ Raise("ConnectionError")
              /\ UNCHANGED <<sess, serverValid>>
         ELSE /\ pc' = "save_cookie"
              /\ exc' = exc
              /\ sess' = IF creds = "good" \/ cookie
                         THEN JarUpdate(sess, {"t_new"}) ELSE sess
              /\ serverValid' = IF creds = "good"
                                THEN serverValid \cup {"t_new"}
                                ELSE serverValid
    /\ UNCHANGED <<args, config, cookiefile, creds, checked, csrf, log, poll,
                   hist, call, langRet, finRet, msgRet>>

\* save_cookie(sess), called at line 126
save_cookie ==
    /\ pc = "save_cookie"
    /\ cookiefile' = File(sess)
    /\ pc' = "check_login"
    /\ UNCHANGED <<args, config, sess, serverValid, creds, checked, csrf, net,
                   log, poll, exc, hist, call, langRet, finRet, msgRet>>

\* check_login(), called at line 127: one GET of the front page
check_login ==
    /\ pc = "check_login"
    /\ net' = Append(net, [req |-> "home", op |-> "GET"])
    /\ \E ok \in BOOLEAN :
         IF ~ok
         THEN /\ Raise("ConnectionError")
              /\ UNCHANGED <<checked, hist>>
         ELSE /\ pc' = "login_finish"
              /\ exc' = exc
              /\ checked' = IF LoggedIn THEN "True" ELSE "False"
              /\ hist' = IF LoggedIn
                         THEN [hist EXCEPT !.verified = @ \cup {sess}]
                         ELSE hist
    /\ UNCHANGED <<args, config, cookiefile, sess, serverValid, creds, csrf,
                   log, poll, call, langRet, finRet, msgRet>>

\* login(), lines 127-133, with the os.remove lost
login_finish_keep ==
    /\ pc = "login_finish"
    /\ IF checked = "True"
       THEN /\ hist' = [hist EXCEPT !.loginRet = "ok"]
            /\ log' = log
       ELSE /\ hist' = [hist EXCEPT !.loginRet = "failed"]
            /\ log' = Append(log, "Login failed")
    /\ pc' = AfterLogin
    /\ UNCHANGED <<args, config, cookiefile, sess, serverValid, creds, checked,
                   csrf, net, poll, exc, call, langRet, finRet, msgRet>>

\* login(), lines 127-133: the branch on check_login()'s answer, and the
\* return; os.remove raises when the file is not there
login_finish ==
    /\ pc = "login_finish"
    /\ IF checked = "True"
       THEN /\ hist' = [hist EXCEPT !.loginRet = "ok"]
            /\ pc' = AfterLogin
            /\ UNCHANGED <<log, cookiefile, exc>>
       ELSE /\ log' = Append(log, "Login failed")
            /\ IF cookiefile.exists
               THEN /\ cookiefile' = NoFile
                    /\ hist' = [hist EXCEPT !.loginRet = "failed"]
                    /\ pc' = AfterLogin
                    /\ exc' = exc
               ELSE /\ cookiefile' = cookiefile
                    /\ hist' = [hist EXCEPT !.loginRet = "raised"]
                    /\ Raise("FileNotFoundError")
    /\ UNCHANGED <<args, config, sess, serverValid, creds, checked, csrf, net,
                   poll, call, langRet, finRet, msgRet>>


\* the keys a submission page can hold in its hidden csrf_key field
CsrfKeys == {"k1", "k2"}

\* submit(), lines 278-279: the GET of the submission page and the lookup
\* of input[name=csrf_key] in it; the page is the site's to write
submit_get ==
    /\ pc = "submit_get"
    /\ \E ok \in BOOLEAN, key \in CsrfKeys \cup {"absent"} :
         /\ net' = Append(net, [req |-> "submit_page", op |-> "GET",
                                number |-> args.number,
                                page |-> IF ok THEN key ELSE "no response"])
         /\ IF ~ok THEN Raise("ConnectionError") /\ csrf' = csrf
            ELSE IF key = "absent" THEN Raise("TypeError") /\ csrf' = csrf
            ELSE pc' = "submit_post" /\ exc' = exc /\ csrf' = key
    /\ UNCHANGED <<args, config, cookiefile, sess, serverValid, creds, checked,
                   log, poll, hist, call, langRet, finRet, msgRet>>

\* the data dictionary of lines 286-292
SubmitData(language_code) ==
    [problem_id |-> args.number, source |-> FileText(args.filename),
     language |-> language_code, code_open |-> "open", csrf_key |-> csrf]

\* submit(), lines 280-293, posting again when the first POST got no answer
submit_post_retry ==
    /\ pc = "submit_post"
    /\ LET language_code == get_lang_code(splitext(args.filename))
           request == [req |-> "submit", op |-> "POST", number |-> args.number,
                       data |-> SubmitData(language_code.code)]
       IN  IF language_code.exc # "none"
           THEN Raise(language_code.exc) /\ UNCHANGED <<log, net>>
           ELSE /\ log' = log \o [i \in 1..Len(language_code.errors) |->
                                    language_code.errors[i].msg]
                /\ IF args.filename \notin ReadableFiles
                   THEN Raise("FileNotFoundError") /\ net' = net
                   ELSE \E ok \in BOOLEAN :
                          IF ok THEN /\ pc' = "print_result"
                                     /\ exc' = exc
                                     /\ net' = Append(net, request)
                          ELSE /\ pc' = "print_result"
                               /\ exc' = exc
                               /\ net' = net \o <<request, request>>
    /\ UNCHANGED <<args, config, cookiefile, sess, serverValid, creds, checked,
                   csrf, poll, hist, call, langRet, finRet, msgRet>>

\* submit(), lines 280-293: the language code, the file, the one POST, and
\* the return to main(), which calls print_result
submit_post ==
    /\ pc = "submit_post"
    /\ LET language_code == get_lang_code(splitext(args.filename))
           request == [req |-> "submit", op |-> "POST", number |-> args.number,
                       data |-> SubmitData(language_code.code)]
       IN  IF language_code.exc # "none"
           THEN Raise(language_code.exc) /\ UNCHANGED <<log, net>>
           ELSE /\ log' = log \o [i \in 1..Len(language_code.errors) |->
                                    language_code.errors[i].msg]
                /\ IF args.filename \notin ReadableFiles
                   THEN Raise("FileNotFoundError") /\ net' = net
                   ELSE /\ net' = Append(net, request)
                        /\ \E ok \in BOOLEAN :
                             IF ok THEN pc' = "print_result" /\ exc' = exc
                             ELSE Raise("ConnectionError")
    /\ UNCHANGED <<args, config, cookiefile, sess, serverValid, creds, checked,
                   csrf, poll, hist, call, langRet, finRet, msgRet>>

\* 55점
S_Score55 == <<"5", "5", "k_jeom">>
\* 채점 중 (45%)
S_JudgingPct == S_Judging \o <<" ", "(", "4", "5", "%", ")">>
\* 런타임 에러 (NZEC)
S_RuntimeNZEC == S_Runtime \o <<" ", "(", "N", "Z", "E", "C", ")">>

\* the status texts, and the memory and time cells, the status page shows
\* in the runs of the process
PollTexts ==
    {S_Preparing, S_JudgingPct, S_Waiting, S_Accepted, S_Wrong, S_Score55,
     S_RuntimeNZEC}
PollCells ==
    {[mem |-> <<>>, rtime |-> <<>>],
     [mem |-> <<"1", "0", "2", "4">>, rtime |-> <<"1", "2">>]}

\* print_result(number): one iteration of the loop of lines 369-382 (and,
\* once done, line 383 and the return to main).  get_username() and the
\* lookups in the status page raise AttributeError when the page lacks the
\* element; convert_msg may raise; check_finished decides done.
print_result ==
    /\ pc = "print_result"
    /\ poll.n < MaxPolls
    /\ \E ok \in BOOLEAN, row \in BOOLEAN, text \in PollTexts, cells \in PollCells :
         IF ~ok
         THEN /\ Raise("ConnectionError")
              /\ poll' = [poll EXCEPT !.n = @ + 1, !.fetched = FALSE]
         ELSE IF ~LoggedIn \/ ~row
         THEN /\ Raise("AttributeError")
              /\ poll' = [poll EXCEPT !.n = @ + 1, !.fetched = FALSE]
         ELSE LET label == convert_msg(text, cells.mem, cells.rtime)
              IN  IF label.exc # "none"
                  THEN /\ Raise(label.exc)
                       /\ poll' = [poll EXCEPT !.n = @ + 1, !.text = text,
                                               !.fetched = TRUE]
                  ELSE /\ poll' = [n |-> poll.n + 1, text |-> text,
                                   fetched |-> TRUE, line |-> label.val,
                                   done |-> check_finished(text)]
                       /\ pc' = IF check_finished(text) THEN "done"
                                ELSE "print_result"
                       /\ exc' = exc
    /\ UNCHANGED <<args, config, cookiefile, sess, serverValid, creds, checked,
                   csrf, net, log, hist, call, langRet, finRet, msgRet>>

\* stats(username), lines 396-423: the user's name if none was given, the
\* profile page, its table
stats ==
    /\ pc = "stats"
    /\ \E ok \in BOOLEAN, table \in BOOLEAN :
         /\ net' = IF args.user = "none"
                   THEN net \o <<[req |-> "home", op |-> "GET"]>>
                            \o (IF ok /\ LoggedIn
                                THEN <<[req |-> "profile", op |-> "GET"]>>
                                ELSE <<>>)
                   ELSE Append(net, [req |-> "profile", op |-> "GET"])
         /\ IF ~ok THEN Raise("ConnectionError")
            ELSE IF (args.user = "none" /\ ~LoggedIn) \/ ~table
            THEN Raise("AttributeError")
            ELSE pc' = "done" /\ exc' = exc
    /\ UNCHANGED <<args, config, cookiefile, sess, serverValid, creds, checked,
                   csrf, log, poll, hist, call, langRet, finRet, msgRet>>

\* the user's interrupt (Ctrl-C) of a process that runs: KeyboardInterrupt
\* is raised where the process is, and nothing catches it
Interrupt ==
    /\ pc \notin {"done", "raised", "lib"}
    /\ Raise("KeyboardInterrupt")
    /\ UNCHANGED <<args, config, cookiefile, sess, serverValid, creds, checked,
                   csrf, net, log, poll, hist, call, langRet, finRet, msgRet>>

(***************************************************************************)
(* The runs of the process.                                                *)
(***************************************************************************)
NotCalled == [called |-> FALSE]

\* the command lines of the runs
Commands ==
    {[cmd |-> "login"], [cmd |-> "version"]}
        \cup {[cmd |-> "stats", user |-> u] : u \in {"none", "bob"}}
        \cup {[cmd |-> "submit", number |-> n, filename |-> f] :
                n \in {1000, 2557}, f \in {F_a_cpp, F_b_py, F_m_c, F_Make}}

\* the section body with the given raw values; Absent leaves the option out
Absent == <<"(absent)">>
SectionBody(compiler, version) ==
    [k \in (IF compiler = Absent THEN {} ELSE {"Compiler"})
              \cup (IF version = Absent THEN {} ELSE {"Version"}) |->
        IF k = "Compiler" THEN compiler ELSE version]

EmptyConfig == [section \in {} |-> SectionBody(Absent, Absent)]
OneSection(name, body) == [section \in {name} |-> body]

\* the config files of the runs of the process
ProcessConfigs ==
    {EmptyConfig,
     OneSection("C++", SectionBody(S_clang, <<"C", "+", "+", "1", "7">>)),
     OneSection("C++", SectionBody(Absent, <<"5", "0", "%">>)),
     OneSection("Python", SectionBody(<<"j", "y", "t", "h", "o", "n">>, Absent))}

\* The state main() starts in: a fresh session, and a cookie file that is
\* absent or was left by an earlier run whose login was verified (the site
\* may have ended that session since).
Init ==
    /\ pc = "main"
    /\ args \in Commands
    /\ config \in ProcessConfigs
    /\ \E old \in {NoFile, File({"t_old"})} :
         /\ cookiefile = old
         /\ serverValid \in (IF old.exists THEN SUBSET {"t_old"} ELSE {{}})
         /\ hist = [prompts |-> 0, logins |-> 0, load |-> "none",
                    loginRet |-> "none", file0 |-> old,
                    verified |-> IF old.exists THEN {old.jar} ELSE {}]
    /\ sess = EmptyJar
    /\ creds = "none"
    /\ checked = "none"
    /\ csrf = "none"
    /\ net = <<>>
    /\ log = <<>>
    /\ poll = [n |-> 0, text |-> <<>>, fetched |-> FALSE, line |-> <<>>,
               done |-> FALSE]
    /\ exc = "none"
    /\ call = NotCalled
    /\ langRet = NotCalled
    /\ finRet = NotCalled
    /\ msgRet = NotCalled

Next ==
    \/ main
    \/ load_cookie
    \/ login_prompt
    \/ auth_user
    \/ save_cookie
    \/ check_login
    \/ login_finish
    \/ submit_get
    \/ submit_post
    \/ print_result
    \/ stats
    \/ Interrupt

Spec == Init /\ [][Next]_vars


(***************************************************************************)
(* Calls of the language resolver on its own: the module imported, config  *)
(* loaded, get_lang_code applied once.                                     *)
(***************************************************************************)
SectionNames == {"C++", "C", "Python", "Java"}

\* raw values of the Compiler option
Compilers ==
    {S_gpp, <<"G", "+", "+">>, S_clang, <<"C", "l", "a", "n", "g">>,
     S_gcc, <<"G", "C", "C">>, S_cpython, S_CPython, S_pypy,
     <<"P", "y", "P", "y">>, S_oracle, S_Oracle, S_openjdk,
     <<"O", "p", "e", "n", "J", "D", "K">>, <<"m", "s", "v", "c">>,
     <<"g", "%", "+">>, <<>>}

\* raw values of the Version option
Versions ==
    {<<"C", "+", "+", "1", "1">>, S_Cpp14, <<"C", "+", "+", "1", "7">>,
     <<"C", "+", "+", "9", "8">>, <<"g", "n", "u", "+", "+", "1", "4", "1", "7">>,
     S_C11, <<"C">>, <<"C", "9", "9">>, <<"c">>, <<"2">>, <<"3">>,
     <<"3", ".", "2">>, <<"2", ".", "7">>, <<"1", "1", "%", "%">>,
     <<"5", "0", "%">>, <<>>}

\* file extensions
LangExts ==
    {E_cc, E_cpp, E_cxx, E_c, E_py, E_java, E_txt, E_js, E_aheui,
     <<".", "r", "s">>, <<".", "C">>, <<>>}

\* what the sections other than the one under study hold, when present
OtherBody == SectionBody(<<"P", "y", "P", "y">>, <<"3">>)
AllSections(name, body) ==
    [section \in SectionNames |-> IF section = name THEN body ELSE OtherBody]

LangConfigs ==
    {EmptyConfig}
        \cup {OneSection(n, SectionBody(c, v)) :
                n \in SectionNames, c \in Compilers \cup {Absent},
                v \in Versions \cup {Absent}}
        \cup {AllSections(n, SectionBody(c, v)) :
                n \in SectionNames, c \in Compilers \cup {Absent},
                v \in Versions \cup {Absent}}

\* the module imported and nothing run
Idle ==
    /\ pc = "lib"
    /\ args = [cmd |-> "none"]
    /\ cookiefile = NoFile
    /\ serverValid = {}
    /\ hist = [prompts |-> 0, logins |-> 0, load |-> "none",
               loginRet |-> "none", file0 |-> NoFile, verified |-> {}]
    /\ sess = EmptyJar
    /\ creds = "none"
    /\ checked = "none"
    /\ csrf = "none"
    /\ net = <<>>
    /\ log = <<>>
    /\ poll = [n |-> 0, text |-> <<>>, fetched |-> FALSE, line |-> <<>>,
               done |-> FALSE]
    /\ exc = "none"

InitLang ==
    /\ Idle
    /\ config \in LangConfigs
    /\ call \in {[called |-> TRUE, ext |-> e] : e \in LangExts}
    /\ langRet = NotCalled
    /\ finRet = NotCalled
    /\ msgRet = NotCalled

CallGetLangCode ==
    /\ pc = "lib"
    /\ ~langRet.called
    /\ langRet' = [called |-> TRUE, ret |-> get_lang_code(call.ext)]
    /\ UNCHANGED <<procVars, config, call, finRet, msgRet>>

NextLang == CallGetLangCode

SpecLang == InitLang /\ [][NextLang]_vars

(***************************************************************************)
(* Calls of convert_msg and check_finished on their own.                   *)
(***************************************************************************)
SeqsUpTo(A, n) == UNION {[1..k -> A] : k \in 0..n}

MsgAlphabet == {"5", "arabic3", "k_jeom", "LF"}

\* 100점
S_Score100 == <<"1", "0", "0", "k_jeom">>

MsgTexts ==
    {S_Preparing, S_Judging, S_Waiting, S_Accepted, S_Format, S_Wrong, S_Time,
     S_Memory, S_Output, S_Runtime, S_Compile, S_Score55, S_Score100,
     S_JudgingPct, S_RuntimeNZEC, <<" ">> \o S_Score55,
     S_Accepted \o <<" ">>}
        \cup SeqsUpTo(MsgAlphabet, MaxLen)

MsgCells ==
    PollCells \cup {[mem |-> <<"2", "0", "2", "0">>, rtime |-> <<"0">>]}

InitMsg ==
    /\ Idle
    /\ config = EmptyConfig
    /\ call \in {[called |-> TRUE, text |-> t, mem |-> c.mem, rtime |-> c.rtime] :
                   t \in MsgTexts, c \in MsgCells}
    /\ langRet = NotCalled
    /\ finRet = NotCalled
    /\ msgRet = NotCalled

CallCheckFinished ==
    /\ pc = "lib"
    /\ ~finRet.called
    /\ finRet' = [called |-> TRUE, val |-> check_finished(call.text)]
    /\ UNCHANGED <<procVars, config, call, langRet, msgRet>>

CallConvertMsg ==
    /\ pc = "lib"
    /\ ~msgRet.called
    /\ msgRet' = [called |-> TRUE,
                  ret |-> convert_msg(call.text, call.mem, call.rtime)]
    /\ UNCHANGED <<procVars, config, call, langRet, finRet>>

NextMsg == CallCheckFinished \/ CallConvertMsg

SpecMsg == InitMsg /\ [][NextMsg]_vars


(***************************************************************************)
(* Properties of the session manager and the submitter, under Spec.        *)
(***************************************************************************)
Requests(kind) == SelectSeq(net, LAMBDA r : r.req = kind)

\* C1: in every reachable state the cookie file is absent or holds the
\* cookies of a login that check_login() verified as successful.
C1_CookieFileVerified ==
    cookiefile.exists => cookiefile.jar \in hist.verified

\* C2: when login() has run and check_login() returned False, then on return
\* from login() the failure is reported, the cookie file does not exist,
\* no exception came out of login() (os.remove finds its file), and one
\* credential prompt and one sign-in POST were made.
C2_LoginFailure ==
    /\ (pc = "login_finish" /\ checked = "False") => cookiefile.exists
    /\ (checked = "False" /\ hist.loginRet # "none") =>
          /\ hist.loginRet = "failed"
          /\ ~cookiefile.exists
          /\ \E i \in 1..Len(log) : log[i] = "Login failed"
          /\ hist.prompts = 1
          /\ Len(Requests("signin")) = 1

\* a failed login has returned in a run that started with a cookie file
C2_FailedOverOldFile ==
    /\ hist.loginRet = "failed"
    /\ hist.file0.exists
    /\ pc = "done"

\* C3: load_cookie() with a cookie file loads its cookies into the session
\* and returns without a prompt, a sign-in request or a change of the file;
\* without a cookie file it calls login(), once, and does not fail.
C3_LoadCookie ==
    /\ hist.load = "file" =>
          /\ hist.file0.exists
          /\ sess = hist.file0.jar
          /\ cookiefile = hist.file0
          /\ hist.prompts = 0
          /\ hist.logins = 0
          /\ Len(Requests("signin")) = 0
    /\ hist.load = "login" =>
          /\ ~hist.file0.exists
          /\ hist.logins = 1
          /\ hist.prompts <= 1
          /\ pc # "load_cookie"

\* load_cookie() has returned to submit() with the session of the file
C3_LoadedFromFile ==
    /\ hist.load = "file"
    /\ pc = "submit_get"
    /\ sess = {"t_old"}

\* C4: whenever the submission page's GET or the submission's POST has been
\* issued, the session was loaded from an existing cookie file or came from
\* a login that succeeded; no such request follows a login that failed.
C4_SubmitAuthenticated ==
    (Len(Requests("submit_page")) + Len(Requests("submit")) > 0) =>
        (hist.load = "file" \/ hist.loginRet = "ok")

\* C5: the loop of print_result exits in an iteration exactly if the status
\* text fetched in it is terminal; any other text causes another iteration
\* and neither ends nor aborts the loop.
C5_PollUntilTerminal ==
    poll.fetched =>
        IF check_finished(poll.text)
        THEN poll.done /\ pc \in {"done"}
        ELSE ~poll.done /\ (pc = "print_result" \/ exc = "KeyboardInterrupt")

\* C10: a call of submit makes one GET of the submission page and then one
\* POST to the same URL, which carries the key that GET's page held, the
\* problem id, the source text and the resolved language code; the POST is
\* made once, and no request of submit or login is made twice.
C10_SubmitRoundTrips ==
    LET gets == Requests("submit_page")
        posts == Requests("submit")
    IN  /\ Len(gets) <= 1
        /\ Len(posts) <= 1
        /\ Len(Requests("signin")) <= 1
        /\ (args.cmd = "submit" => Len(Requests("home")) <= 1)
        /\ Len(posts) = 1 =>
              /\ Len(gets) = 1
              /\ \E i, j \in 1..Len(net) :
                    i < j /\ net[i] = gets[1] /\ net[j] = posts[1] /\ j = Len(net)
              /\ posts[1].op = "POST" /\ gets[1].op = "GET"
              /\ posts[1].number = gets[1].number
              /\ posts[1].number = args.number
              /\ posts[1].data.csrf_key = gets[1].page
              /\ posts[1].data.csrf_key \in CsrfKeys
              /\ posts[1].data.problem_id = args.number
              /\ posts[1].data.source = FileText(args.filename)
              /\ posts[1].data.language
                    = get_lang_code(splitext(args.filename)).code
        /\ (args.cmd = "submit" /\ (pc = "print_result" \/ poll.n > 0)) =>
              Len(posts) = 1

\* submit has returned after its POST got no useful answer or a good one,
\* and print_result runs
C10_Submitted ==
    /\ pc = "print_result"
    /\ Len(Requests("submit")) = 1
    /\ net[Len(net)].data.language = 85


(***************************************************************************)
(* Properties of the language resolver, under SpecLang.                    *)
(***************************************************************************)
\* The documented table: per language family its extensions, its config
\* section, the code without the section, and per compiler the codes by
\* version marker (Java has no versions: its one marker is the empty text).
DocFamilies ==
    {[exts |-> {E_cc, E_cpp, E_cxx}, section |-> "C++", nosection |-> 88,
      versioned |-> TRUE,
      compilers |->
        {[name |-> <<"g", "+", "+">>,
          codes |-> <<[marker |-> <<"1", "1">>, code |-> 49],
                      [marker |-> <<"1", "4">>, code |-> 88],
                      [marker |-> <<"1", "7">>, code |-> 84]>>],
         [name |-> <<"c", "l", "a", "n", "g">>,
          codes |-> <<[marker |-> <<"1", "1">>, code |-> 66],
                      [marker |-> <<"1", "4">>, code |-> 67],
                      [marker |-> <<"1", "7">>, code |-> 85]>>]}],
     [exts |-> {E_c}, section |-> "C", nosection |-> 75, versioned |-> TRUE,
      compilers |->
        {[name |-> <<"g", "c", "c">>,
          codes |-> <<[marker |-> <<"1", "1">>, code |-> 75],
                      [marker |-> <<"C">>, code |-> 0]>>],
         [name |-> <<"c", "l", "a", "n", "g">>,
          codes |-> <<[marker |-> <<"1", "1">>, code |-> 77],
                      [marker |-> <<"C">>, code |-> 59]>>]}],
     [exts |-> {E_py}, section |-> "Python", nosection |-> 28,
      versioned |-> TRUE,
      compilers |->
        {[name |-> <<"C", "P", "y", "t", "h", "o", "n">>,
          codes |-> <<[marker |-> <<"2">>, code |-> 6],
                      [marker |-> <<"3">>, code |-> 28]>>],
         [name |-> <<"P", "y", "P", "y">>,
          codes |-> <<[marker |-> <<"2">>, code |-> 32],
                      [marker |-> <<"3">>, code |-> 73]>>]}],
     [exts |-> {E_java}, section |-> "Java", nosection |-> 3,
      versioned |-> FALSE,
      compilers |->
        {[name |-> <<"O", "r", "a", "c", "l", "e">>,
          codes |-> <<[marker |-> <<>>, code |-> 3]>>],
         [name |-> <<"O", "p", "e", "n", "J", "D", "K">>,
          codes |-> <<[marker |-> <<>>, code |-> 91]>>]}]}

DocFixed == {[ext |-> E_txt, code |-> 58], [ext |-> E_js, code |-> 17],
             [ext |-> E_aheui, code |-> 83]}

NoExpectation == [known |-> FALSE]
Expect(code) == [known |-> TRUE, code |-> code]

\* a version marker matched by substring containment
MatchContained(marker, version) == Contains(version, marker)

\* a version marker matched by substring containment, but the marker "C" of
\* the C family by equality
MatchContainedOrC(marker, version) ==
    IF marker = <<"C">> THEN version = marker ELSE Contains(version, marker)

\* The code the table gives for (call.ext, config), with the compiler name
\* matched without regard to case and the version by Match.  The table
\* says nothing (NoExpectation) of an extension outside it, of a section
\* that lacks an option or holds a "%", of a compiler it does not name, and
\* of a version that matches none or several of the compiler's markers.
DocCode(Match(_, _)) ==
    IF \E f \in DocFixed : f.ext = call.ext
    THEN Expect((CHOOSE f \in DocFixed : f.ext = call.ext).code)
    ELSE IF ~\E f \in DocFamilies : call.ext \in f.exts
    THEN NoExpectation
    ELSE LET fam == CHOOSE f \in DocFamilies : call.ext \in f.exts
         IN  IF fam.section \notin DOMAIN config
             THEN Expect(fam.nosection)
             ELSE LET body == config[fam.section]
                      given == IF fam.versioned THEN {"Compiler", "Version"}
                               ELSE {"Compiler"}
                  IN  IF \/ ~(given \subseteq DOMAIN body)
                         \/ \E k \in given : Contains(body[k], <<"%">>)
                      THEN NoExpectation
                      ELSE LET version == IF fam.versioned THEN body["Version"]
                                          ELSE <<>>
                               named == {c \in fam.compilers :
                                           Lower(c.name) = Lower(body["Compiler"])}
                               matched(e) == {j \in 1..Len(e.codes) :
                                                Match(e.codes[j].marker, version)}
                               codes == UNION {{e.codes[j].code : j \in matched(e)} :
                                                 e \in named}
                           IN  IF Cardinality(codes) = 1
                               THEN Expect(CHOOSE c \in codes : TRUE)
                               ELSE NoExpectation

\* C6 as stated: get_lang_code returns the documented code for every pair of
\* the table, the compiler matched case-insensitively and every version
\* marker by substring containment.
C6_TableByContainment ==
    langRet.called =>
        LET doc == DocCode(MatchContained)
        IN  doc.known => langRet.ret.exc = "none" /\ langRet.ret.code = doc.code

\* C6 as amended: the same, with the version markers 11, 14, 17, 2 and 3
\* matched by substring containment and the marker "C" of the C family
\* matched by equality with the whole version string.
C6_TableCEquality ==
    langRet.called =>
        LET doc == DocCode(MatchContainedOrC)
        IN  doc.known => langRet.ret.exc = "none" /\ langRet.ret.code = doc.code

\* get_lang_code('.c') with [C] Compiler = GCC, Version = C returned 0
C6_PlainCResolved ==
    /\ langRet.called
    /\ call.ext = E_c
    /\ "C" \in DOMAIN config
    /\ config["C"] = SectionBody(<<"G", "C", "C">>, <<"C">>)
    /\ langRet.ret.exc = "none"
    /\ langRet.ret.code = 0

\* C7: get_lang_code raises for no extension and no configuration; an
\* unrecognised compiler or version in a present section gives an error log
\* and the code 88 in every family, and an unrecognised extension gives 88.
C7_NeverRaises ==
    langRet.called =>
        /\ langRet.ret.exc = "none"
        /\ langRet.ret.errors # <<>> => langRet.ret.code = 88
        /\ (~\E f \in DocFixed : f.ext = call.ext)
             /\ (~\E f \in DocFamilies : call.ext \in f.exts)
             => langRet.ret.code = 88
        /\ \A f \in DocFamilies :
             (/\ call.ext \in f.exts
              /\ f.section \in DOMAIN config
              /\ "Compiler" \in DOMAIN config[f.section]
              /\ \A c \in f.compilers :
                    Lower(c.name) # Lower(config[f.section]["Compiler"]))
             => langRet.ret.code = 88 /\ langRet.ret.errors # <<>>


(***************************************************************************)
(* Properties of check_finished and convert_msg, under SpecMsg.            *)
(***************************************************************************)
\* the texts of the form <digits>점
IsScoreText(t) ==
    /\ Len(t) >= 2
    /\ t[Len(t)] = "k_jeom"
    /\ \A i \in 1..(Len(t) - 1) : t[i] \in Digits

\* the documented terminal judge strings: Accepted, Wrong Output Format,
\* Wrong Answer, Time / Memory / Output Limit Exceeded, Runtime Error,
\* Compile Error
DocTerminal ==
    {S_Accepted, S_Format, S_Wrong, S_Time, S_Memory, S_Output, S_Runtime,
     S_Compile}

\* C8: check_finished returns True for every text <digits>점 and for each
\* documented terminal judge string, and False for Judge Preparing, Judging,
\* Waiting and every other text.
C8_CheckFinishedTotal ==
    finRet.called =>
        /\ finRet.val \in BOOLEAN
        /\ finRet.val = (IsScoreText(call.text) \/ call.text \in DocTerminal)
        /\ call.text \in {S_Preparing, S_Judging, S_Waiting} => ~finRet.val

\* check_finished('55점') returned True
C8_ScoreIsTerminal ==
    /\ finRet.called
    /\ call.text = <<"5", "5", "k_jeom">>
    /\ finRet.val = TRUE

\* s without its ANSI colour sequences (ESC [ ... m)
RECURSIVE AfterSGR(_)
AfterSGR(s) ==
    IF s = <<>> THEN <<>>
    ELSE IF Head(s) = "m" THEN Tail(s)
    ELSE AfterSGR(Tail(s))

RECURSIVE Plain(_)
Plain(s) ==
    IF s = <<>> THEN <<>>
    ELSE IF Head(s) = "ESC" THEN Plain(AfterSGR(Tail(s)))
    ELSE <<Head(s)>> \o Plain(Tail(s))

\* the documented short label of a status text, <<"?">> where none is
\* documented
DocLabel(text, mem, rtime) ==
    CASE text = S_Preparing ->
            <<"P", "r", "e", "p", "a", "r", "i", "n", "g", ".", ".", ".">>
      [] text = S_Judging -> <<"J", "u", "d", "g", "i", "n", "g", ".", ".", ".">>
      [] text = S_Accepted ->
            <<"A", "C", " ", "(">> \o mem \o <<"K", "B", ",", " ">> \o rtime
                \o <<"m", "s", ")">>
      [] IsScoreText(text) ->
            <<"P", "a", "r", "t", "i", "a", "l", " ", "(">>
                \o SubSeq(text, 1, Len(text) - 1) \o <<")">>
      [] text = S_Format -> <<"P", "E">>
      [] text = S_Wrong -> <<"W", "A">>
      [] text = S_Time -> <<"T", "L", "E">>
      [] text = S_Memory -> <<"M", "L", "E">>
      [] text = S_Output -> <<"P", "L", "E">>
      [] text = S_Runtime -> <<"R", "T", "E">>
      [] text = S_Compile ->
            <<"C", "o", "m", "p", "i", "l", "e", " ", "E", "r", "r", "o", "r">>
      [] OTHER -> <<"?">>

\* C9: convert_msg gives the documented short label (colours aside) for the
\* two progress strings, Accepted, <n>점 and the other terminal strings, and
\* so translates without error every text check_finished holds terminal.
C9_ConvertMsgLabels ==
    msgRet.called =>
        /\ DocLabel(call.text, call.mem, call.rtime) # <<"?">> =>
              /\ msgRet.ret.exc = "none"
              /\ Plain(msgRet.ret.val)
                    = DocLabel(call.text, call.mem, call.rtime)
        /\ check_finished(call.text) => msgRet.ret.exc = "none"

\* convert_msg('맞았습니다!!', '1024', '12') returned 'AC (1024KB, 12ms)'
C9_AcceptedRendered ==
    /\ msgRet.called
    /\ call.text = S_Accepted
    /\ msgRet.ret.exc = "none"
    /\ Plain(msgRet.ret.val)
          = <<"A", "C", " ", "(", "1", "0", "2", "4", "K", "B", ",", " ",
              "1", "2", "m", "s", ")">>

====
